---- MODULE Spec2Model ----
(***************************************************************************)
(* A model of the OpenTok server SDK (src/lib.rs, src/http_client.rs):     *)
(* the client-token generator, the server-auth claims attached to every    *)
(* management-API request, the session-creation request body and the       *)
(* handling of the session-creation response.                              *)
(*                                                                         *)
(* Text is a sequence of one-character strings; bytes are 0..255.  A u64   *)
(* is four 16-bit limbs, least significant first, so that the width of     *)
(* the program's integers is kept.                                         *)
(***************************************************************************)
EXTENDS Integers, Sequences, FiniteSets, TLC

\* ------------------------------------------------------------------ bounds
MaxKeyLen == 2
MaxSessionLen == 1
MaxCalls == 2
MaxResp == 2

\* -------------------------------------------------------------------- text
\* The printable ASCII characters, code 32 first (code 96 is written "grave").
Ascii == <<" ","!","\"","#","$","%","&","'","(",")","*","+",",","-",".","/","0","1","2","3","4","5","6","7","8","9",":",";","<","=",">","?","@","A","B","C","D","E","F","G","H","I","J","K","L","M","N","O","P","Q","R","S","T","U","V","W","X","Y","Z","[","\\","]","^","_","grave","a","b","c","d","e","f","g","h","i","j","k","l","m","n","o","p","q","r","s","t","u","v","w","x","y","z","{","|","}","~">>

AsciiSet == {Ascii[i] : i \in 1..Len(Ascii)}

OrdTable == [c \in AsciiSet |-> 31 + (CHOOSE i \in 1..Len(Ascii) : Ascii[i] = c)]

\* The byte of a character (str::as_bytes on ASCII text).
Ord(c) == OrdTable[c]

\* The character of a byte.
Chr(b) == Ascii[b - 31]

as_bytes(s) == [i \in 1..Len(s) |-> Ord(s[i])]

from_bytes(bs) == [i \in 1..Len(bs) |-> Chr(bs[i])]

\* char::to_lowercase on ASCII: only A..Z change.
LowerChar(c) == IF Ord(c) >= 65 /\ Ord(c) <= 90 THEN Chr(Ord(c) + 32) ELSE c

to_lowercase(s) == [i \in 1..Len(s) |-> LowerChar(s[i])]

\* ----------------------------------------------------------------- base64
B64Alphabet == <<"A","B","C","D","E","F","G","H","I","J","K","L","M","N","O","P","Q","R","S","T","U","V","W","X","Y","Z","a","b","c","d","e","f","g","h","i","j","k","l","m","n","o","p","q","r","s","t","u","v","w","x","y","z","0","1","2","3","4","5","6","7","8","9","+","/">>

B64Char(n) == B64Alphabet[n + 1]

\* Standard alphabet, padded: each group of three bytes makes four characters,
\* and a last group of one or two bytes is filled with "=".
B64Bytes(bs) ==
    [j \in 1..(4 * ((Len(bs) + 2) \div 3)) |->
        LET i == 3 * ((j - 1) \div 4) + 1
            k == (j - 1) % 4
            b1 == bs[i]
            b2 == IF i + 1 <= Len(bs) THEN bs[i + 1] ELSE 0
            b3 == IF i + 2 <= Len(bs) THEN bs[i + 2] ELSE 0
        IN  CASE k = 0 -> B64Char(b1 \div 4)
              [] k = 1 -> B64Char((b1 % 4) * 16 + (b2 \div 16))
              [] k = 2 -> IF i + 1 <= Len(bs)
                          THEN B64Char((b2 % 16) * 4 + (b3 \div 64)) ELSE "="
              [] k = 3 -> IF i + 2 <= Len(bs) THEN B64Char(b3 % 64) ELSE "="]

base64_encode(s) == B64Bytes(as_bytes(s))

\* ------------------------------------------------------------------- hex
HexDigits == <<"0","1","2","3","4","5","6","7","8","9","a","b","c","d","e","f">>

\* ToHex::to_hex: two lowercase digits per byte.
to_hex(bs) ==
    [i \in 1..(2 * Len(bs)) |->
        IF i % 2 = 1 THEN HexDigits[(bs[(i + 1) \div 2] \div 16) + 1]
        ELSE HexDigits[(bs[i \div 2] % 16) + 1]]

\* ------------------------------------------------------------------- u64
Limb == 2 ^ 16

U64Of(n) == <<n % Limb, (n \div Limb) % Limb, 0, 0>>

U64Zero == <<0, 0, 0, 0>>

\* i64::MAX, the largest number of seconds a SystemTime can hold.
I64Max == <<Limb - 1, Limb - 1, Limb - 1, (Limb \div 2) - 1>>

U64Max == <<Limb - 1, Limb - 1, Limb - 1, Limb - 1>>

RECURSIVE AddLimbs(_, _, _, _)
AddLimbs(a, b, i, carry) ==
    IF i > 4 THEN <<>>
    ELSE <<(a[i] + b[i] + carry) % Limb>>
         \o AddLimbs(a, b, i + 1, (a[i] + b[i] + carry) \div Limb)

\* The sum modulo 2^64.
U64WrappingAdd(a, b) == AddLimbs(a, b, 1, 0)

RECURSIVE CarryOut(_, _, _, _)
CarryOut(a, b, i, carry) ==
    IF i > 4 THEN carry
    ELSE CarryOut(a, b, i + 1, (a[i] + b[i] + carry) \div Limb)

U64AddOverflows(a, b) == CarryOut(a, b, 1, 0) = 1

RECURSIVE LessFrom(_, _, _)
LessFrom(a, b, i) ==
    IF i < 1 THEN FALSE
    ELSE IF a[i] # b[i] THEN a[i] < b[i]
    ELSE LessFrom(a, b, i - 1)

U64Less(a, b) == LessFrom(a, b, 4)

\* Long division by ten, most significant limb first: <<quotient, remainder>>.
DivMod10(a) ==
    LET r4 == a[4] % 10
        c3 == r4 * Limb + a[3]
        c2 == (c3 % 10) * Limb + a[2]
        c1 == (c2 % 10) * Limb + a[1]
    IN  << <<c1 \div 10, c2 \div 10, c3 \div 10, a[4] \div 10>>, c1 % 10 >>

RECURSIVE DecDigits(_)
DecDigits(a) ==
    IF a = U64Zero THEN <<>>
    ELSE DecDigits(DivMod10(a)[1]) \o <<Chr(48 + DivMod10(a)[2])>>

\* Display for u64: decimal, no sign, no leading zeros.
fmt_u64(a) == IF a = U64Zero THEN <<"0">> ELSE DecDigits(a)

\* ------------------------------------------------------------ text sets
RECURSIVE StringsUpTo(_, _)
\* Every text over the characters cs of length at most n.
StringsUpTo(cs, n) ==
    IF n = 0 THEN {<<>>}
    ELSE StringsUpTo(cs, n - 1)
         \cup {Append(s, c) : s \in {t \in StringsUpTo(cs, n - 1) : Len(t) = n - 1}, c \in cs}

\* API keys: digits, and the two separators of the token's inner string.
Keys == StringsUpTo({"4", ":", "&"}, MaxKeyLen)

Secrets == {<<"s">>, <<"t", "0">>}

SessionIds == StringsUpTo({"1", ":", "&"}, MaxSessionLen)

Nonces == {U64Zero, U64Max}

\* What SystemTime::now().duration_since(UNIX_EPOCH) can give: an error when the
\* clock is set before 1970, else whole seconds from 0 to i64::MAX.
ClockReadings ==
    {[ok |-> FALSE, secs |-> U64Zero]}
    \cup {[ok |-> TRUE, secs |-> t] : t \in {U64Of(1700000000), I64Max}}

NoValue == [none |-> TRUE]

\* ---------------------------------------------------------------- roles
TokenRole == {"Publisher", "Subscriber", "Moderator"}

\* derive(Debug) on a fieldless enum prints the variant's name.
TokenRoleDebug(role) ==
    CASE role = "Publisher" -> <<"P","u","b","l","i","s","h","e","r">>
      [] role = "Subscriber" -> <<"S","u","b","s","c","r","i","b","e","r">>
      [] role = "Moderator" -> <<"M","o","d","e","r","a","t","o","r">>

TokenRoleDisplay(role) == to_lowercase(TokenRoleDebug(role))

\* ------------------------------------------------------------ token data
\* `now + secs` on u64: a build with overflow checks aborts on overflow, a build
\* without them wraps.
CheckedAdd(now, secs, checks) ==
    IF U64AddOverflows(now, secs) /\ checks THEN [panic |-> TRUE, value |-> U64Zero]
    ELSE [panic |-> FALSE, value |-> U64WrappingAdd(now, secs)]

TokenData_new_short(session_id, role, clock, rnd, checks) ==
    IF ~clock.ok THEN [panic |-> TRUE]
    ELSE [panic |-> FALSE,
          session_id |-> session_id,
          create_time |-> clock.secs,
          expire_time |-> CheckedAdd(clock.secs, U64Of(60 * 60 * 12), checks).value,
          nonce |-> rnd,
          role |-> role]

TokenData_new(session_id, role, clock, rnd, checks) ==
    IF ~clock.ok THEN [panic |-> TRUE]
    ELSE LET now == clock.secs
             sum == CheckedAdd(now, U64Of(60 * 60 * 24), checks)
         IN  IF sum.panic THEN [panic |-> TRUE]
             ELSE [panic |-> FALSE,
                   session_id |-> session_id,
                   create_time |-> now,
                   expire_time |-> sum.value,
                   nonce |-> rnd,
                   role |-> role]

TokenDataDisplay_swapped(d) ==
    <<"s","e","s","s","i","o","n","_","i","d","=">> \o d.session_id
    \o <<"&","e","x","p","i","r","e","_","t","i","m","e","=">> \o fmt_u64(d.expire_time)
    \o <<"&","c","r","e","a","t","e","_","t","i","m","e","=">> \o fmt_u64(d.create_time)
    \o <<"&","n","o","n","c","e","=">> \o fmt_u64(d.nonce)
    \o <<"&","r","o","l","e","=">> \o TokenRoleDisplay(d.role)

TokenDataDisplay(d) ==
    <<"s","e","s","s","i","o","n","_","i","d","=">> \o d.session_id
    \o <<"&","c","r","e","a","t","e","_","t","i","m","e","=">> \o fmt_u64(d.create_time)
    \o <<"&","e","x","p","i","r","e","_","t","i","m","e","=">> \o fmt_u64(d.expire_time)
    \o <<"&","n","o","n","c","e","=">> \o fmt_u64(d.nonce)
    \o <<"&","r","o","l","e","=">> \o TokenRoleDisplay(d.role)

\* ------------------------------------------------------------------ hmac
RECURSIVE Absorb(_, _, _)
\* A position-weighted sum of the bytes lo..hi, halving the range at each step.
Absorb(bs, lo, hi) ==
    IF lo > hi THEN 0
    ELSE IF lo = hi THEN ((bs[lo] + 1) * (lo * lo + 3 * lo + 7)) % 65521
    ELSE (Absorb(bs, lo, (lo + hi) \div 2) + Absorb(bs, ((lo + hi) \div 2) + 1, hi)) % 65521

\* A stand-in for the hmacsha1 crate: a keyed digest of twenty bytes that depends
\* on every byte of the key and of the message.
hmac_sha1(key, msg) ==
    LET h == (Absorb(key, 1, Len(key)) * 257 + Absorb(msg, 1, Len(msg)) * 31
              + Len(key) * 7 + Len(msg)) % 65521
    IN  [i \in 1..20 |-> ((h + i) * (2 * i + 37)) % 256]

\* -------------------------------------------------------- generate_token
\* The locals of generate_token when it returns, or the abort it ends in.
generate_token_keysig(api_key, api_secret, session_id, role, clock, rnd, checks) ==
    LET token_data == TokenData_new(session_id, role, clock, rnd, checks)
    IN  IF token_data.panic THEN [outcome |-> "panicked"]
        ELSE LET signed == to_hex(hmac_sha1(as_bytes(api_key),
                                            as_bytes(TokenDataDisplay(token_data))))
                 decoded == <<"p","a","r","t","n","e","r","_","i","d","=">> \o api_key
                            \o <<"&","s","i","g","=">> \o signed
                            \o <<":">> \o TokenDataDisplay(token_data)
             IN  [outcome |-> "returned",
                  token_data |-> token_data,
                  token |-> <<"T","1","=","=">> \o base64_encode(decoded)]

generate_token(api_key, api_secret, session_id, role, clock, rnd, checks) ==
    LET token_data == TokenData_new(session_id, role, clock, rnd, checks)
    IN  IF token_data.panic THEN [outcome |-> "panicked"]
        ELSE LET signed == to_hex(hmac_sha1(as_bytes(api_secret),
                                            as_bytes(TokenDataDisplay(token_data))))
                 decoded == <<"p","a","r","t","n","e","r","_","i","d","=">> \o api_key
                            \o <<"&","s","i","g","=">> \o signed
                            \o <<":">> \o TokenDataDisplay(token_data)
             IN  [outcome |-> "returned",
                  token_data |-> token_data,
                  token |-> <<"T","1","=","=">> \o base64_encode(decoded)]

\* ------------------------------------------------------- session options
\* Option<MediaMode> and Option<ArchiveMode>: the unset value is written "None".
MediaModeOption == {"None", "Relayed", "Routed"}

ArchiveModeOption == {"None", "Always", "Manual"}

NoText == [some |-> FALSE, v |-> <<>>]

SomeText(t) == [some |-> TRUE, v |-> t]

Locations == {NoText, SomeText(<<"1","0",".","0",".","0",".","1">>)}

SessionOptions == [location : Locations, media_mode : MediaModeOption, archive_mode : ArchiveModeOption]

ArchiveModeDebug(mode) ==
    CASE mode = "Always" -> <<"A","l","w","a","y","s">>
      [] mode = "Manual" -> <<"M","a","n","u","a","l">>

ArchiveModeDisplay(mode) == to_lowercase(ArchiveModeDebug(mode))

CreateSessionBody_from_relayed_default(options) ==
    [archive_mode |->
        IF options.archive_mode = "None" THEN <<"m","a","n","u","a","l">>
        ELSE ArchiveModeDisplay(options.archive_mode),
     location |-> options.location,
     p2p_preference |->
        IF options.media_mode = "None" THEN <<"e","n","a","b","l","e","d">>
        ELSE IF options.media_mode = "Relayed" THEN <<"e","n","a","b","l","e","d">>
        ELSE <<"d","i","s","a","b","l","e","d">>]

CreateSessionBody_from_always_default(options) ==
    [archive_mode |->
        IF options.archive_mode = "None" THEN <<"a","l","w","a","y","s">>
        ELSE ArchiveModeDisplay(options.archive_mode),
     location |-> options.location,
     p2p_preference |->
        IF options.media_mode = "None" THEN <<"d","i","s","a","b","l","e","d">>
        ELSE IF options.media_mode = "Relayed" THEN <<"e","n","a","b","l","e","d">>
        ELSE <<"d","i","s","a","b","l","e","d">>]

\* impl From<SessionOptions> for CreateSessionBody.  The fields go on the wire as
\* archiveMode, location and p2p.preference.
CreateSessionBody_from(options) ==
    [archive_mode |->
        IF options.archive_mode = "None" THEN <<"m","a","n","u","a","l">>
        ELSE ArchiveModeDisplay(options.archive_mode),
     location |-> options.location,
     p2p_preference |->
        IF options.media_mode = "None" THEN <<"d","i","s","a","b","l","e","d">>
        ELSE IF options.media_mode = "Relayed" THEN <<"e","n","a","b","l","e","d">>
        ELSE <<"d","i","s","a","b","l","e","d">>]

\* ------------------------------------------------------------ server auth
Claims_new_long(key, clock, rnd, checks) ==
    IF ~clock.ok THEN [panic |-> TRUE]
    ELSE [panic |-> FALSE, iss |-> key, ist |-> "project", iat |-> clock.secs,
          exp |-> CheckedAdd(clock.secs, U64Of(3 * 60 * 60), checks).value, jti |-> rnd]

Claims_new(key, clock, rnd, checks) ==
    IF ~clock.ok THEN [panic |-> TRUE]
    ELSE LET now == clock.secs
             sum == CheckedAdd(now, U64Of(3 * 60), checks)
         IN  IF sum.panic THEN [panic |-> TRUE]
             ELSE [panic |-> FALSE, iss |-> key, ist |-> "project", iat |-> now,
                   exp |-> sum.value, jti |-> rnd]

\* jsonwebtoken::encode with Header::default(): the three parts of the assertion.
encode(claims, secret) ==
    [header |-> [alg |-> "HS256", typ |-> "JWT"],
     claims |-> claims,
     signature |-> [key |-> secret, over |-> <<[alg |-> "HS256", typ |-> "JWT"], claims>>]]

OkOf(v) == [kind |-> "Ok", value |-> v]

ErrOf(e, text) == [kind |-> "Err", value |-> [error |-> e, text |-> text]]

Panicked == [kind |-> "panic", value |-> <<>>]

\* auth_header: the claims it builds and what it returns; enc_ok is whether
\* jsonwebtoken::encode succeeds.
auth_header(key, secret, clock, rnd, checks, enc_ok) ==
    LET claims == Claims_new(key, clock, rnd, checks)
    IN  IF claims.panic THEN [claims |-> NoValue, ret |-> Panicked]
        ELSE IF ~enc_ok THEN [claims |-> claims, ret |-> ErrOf("EncodingError", <<>>)]
        ELSE [claims |-> claims, ret |-> OkOf(encode(claims, secret))]

\* impl From<surf::Error> for OpenTokError.
OpenTokError_from(status, text) ==
    IF status >= 400 /\ status <= 499 THEN ErrOf("BadRequest", text)
    ELSE IF status >= 500 /\ status <= 599 THEN ErrOf("ServerError", text)
    ELSE ErrOf("__Unknown", <<>>)

\* ------------------------------------------------------- response bodies
Items == {[session_id |-> SomeText(<<"1","_","M">>)], [session_id |-> SomeText(<<"2","_","M">>)],
          [session_id |-> NoText]}

RECURSIVE SeqsUpTo(_, _)
SeqsUpTo(S, n) ==
    IF n = 0 THEN {<<>>}
    ELSE SeqsUpTo(S, n - 1)
         \cup {Append(s, x) : s \in {t \in SeqsUpTo(S, n - 1) : Len(t) = n - 1}, x \in S}

\* What a response body can hold: text that is no JSON, a JSON array of objects
\* (each with or without a session_id), or one JSON object describing a stream.
Bodies ==
    {[json |-> "invalid", items |-> <<>>], [json |-> "stream", items |-> <<>>]}
    \cup {[json |-> "array", items |-> s] : s \in SeqsUpTo(Items, MaxResp)}

\* What the body of a response outside 200..=299 can hold.
ErrorBodies == {b \in Bodies : b.json = "invalid" \/ b.items = <<>>}

\* serde_json::from_str::<Vec<CreateSessionResponse>>: an array whose every
\* object has a session_id.
ParseSessions(body) ==
    IF body.json = "array" /\ \A i \in 1..Len(body.items) : body.items[i].session_id.some
    THEN OkOf([i \in 1..Len(body.items) |-> body.items[i].session_id.v])
    ELSE ErrOf("Syntax", <<>>)

\* serde_json::from_str::<StreamInfo>.
ParseStreamInfo(body) ==
    IF body.json = "stream" THEN OkOf([id |-> <<"s","t">>]) ELSE ErrOf("Syntax", <<>>)

Via(r, branch) == [kind |-> r.kind, value |-> r.value, via |-> branch]

create_session_finish_no_assert(response_str) ==
    LET parsed == ParseSessions(response_str)
        response == parsed.value
    IN  IF parsed.kind = "Err"
        THEN Via(ErrOf("UnexpectedResponse", response_str), "map_err")
        ELSE IF Len(response) > 0
        THEN Via(OkOf(response[Len(response)]), "Some")
        ELSE Via(ErrOf("UnexpectedResponse", response_str), "None")

\* create_session from the body text on: parse, assert_eq!(len, 1), pop.  `via`
\* is the branch that ended the call.
create_session_finish(response_str) ==
    LET parsed == ParseSessions(response_str)
        response == parsed.value
    IN  IF parsed.kind = "Err"
        THEN Via(ErrOf("UnexpectedResponse", response_str), "map_err")
        ELSE IF Len(response) # 1
        THEN Via(Panicked, "assert_eq")
        ELSE IF Len(response) > 0
        THEN Via(OkOf(response[Len(response)]), "Some")
        ELSE Via(ErrOf("UnexpectedResponse", response_str), "None")

\* get_stream_info from the body text on.
get_stream_info_finish(response_str) ==
    LET parsed == ParseStreamInfo(response_str)
    IN  IF parsed.kind = "Err"
        THEN Via(ErrOf("UnexpectedResponse", response_str), "map_err")
        ELSE Via(parsed, "Ok")

\* ----------------------------------------------------------- http client
AUTH_HEADER == "X-OPENTOK-AUTH"

ACCEPT == "Accept"

JSON == "application/json"

SERVER_URL == "https://api.opentok.com"

API_ENDPOINT_PATH_START == "/v2/project/"

\* ----------------------------------------------------------------- state
VARIABLES
    api_key,          \* OpenTok.api_key
    api_secret,       \* OpenTok.api_secret
    overflow_checks,  \* whether the build checks integer overflow
    gen,              \* the last generate_token call: its arguments and its end
    calls,            \* management-API calls started so far
    pc,               \* the current call: idle, sent, reading, reading_err, done
    op,               \* the current call: create_session or get_stream_info
    args,             \* the current call's arguments, until the request is handed over
    req,              \* the request handed to the HTTP client, until it is answered
    resp,             \* the response: its status, and its body once read
    result,           \* what the current call returned
    built,            \* every Claims::new so far: the call, what it drew, the record
    sent              \* every request sent so far: the call and its X-OPENTOK-AUTH value

ivars == <<api_key, api_secret, overflow_checks>>

hvars == <<calls, pc, op, args, req, resp, result, built, sent>>

vars == <<api_key, api_secret, overflow_checks, gen, calls, pc, op, args, req, resp, result, built, sent>>

\* No management-API call has been made.
HttpIdle ==
    /\ calls = 0
    /\ pc = "idle"
    /\ op = "none"
    /\ args = NoValue
    /\ req = NoValue
    /\ resp = NoValue
    /\ result = NoValue
    /\ built = <<>>
    /\ sent = <<>>

\* OpenTok::new, before any call.
TokenInit ==
    /\ api_key \in Keys
    /\ api_secret \in Secrets
    /\ overflow_checks \in BOOLEAN
    /\ gen = NoValue
    /\ HttpIdle

\* One call of generate_token(&self, session_id, role): the clock reading and the
\* random number are what the call draws from its surroundings.
GenerateToken ==
    /\ gen = NoValue
    /\ \E session_id \in SessionIds, role \in TokenRole,
          clock \in ClockReadings, rnd \in Nonces :
            gen' = [session_id |-> session_id, role |-> role, clock |-> clock, rnd |-> rnd,
                    end |-> generate_token(api_key, api_secret, session_id, role,
                                           clock, rnd, overflow_checks)]
    /\ UNCHANGED <<ivars, hvars>>

\* The caller is done with the call's result; the instance is ready for the next.
DropToken ==
    /\ gen # NoValue
    /\ gen' = NoValue
    /\ UNCHANGED <<ivars, hvars>>

TokenNext == GenerateToken \/ DropToken

TokenSpec == TokenInit /\ [][TokenNext]_vars

\* ------------------------------------------------------ management calls
post_cached(endpoint, key, secret, body, clock, rnd, checks, enc_ok, form_ok) ==
    LET ah == auth_header(key, secret, clock, rnd, checks, enc_ok)
    IN  IF ah.ret.kind # "Ok" THEN [claims |-> ah.claims, early |-> ah.ret, req |-> NoValue]
        ELSE IF ~form_ok
        THEN [claims |-> ah.claims, early |-> ErrOf("EncodingError", <<>>), req |-> NoValue]
        ELSE [claims |-> ah.claims, early |-> NoValue,
              req |-> [method |-> "POST", endpoint |-> endpoint,
                       headers |-> (AUTH_HEADER :> (IF Len(sent) > 0 THEN sent[Len(sent)].auth
                                                    ELSE ah.ret.value)
                                    @@ ACCEPT :> JSON),
                       body |-> body]]

\* http_client::post up to the await of send: the claims it built, and either the
\* early return or the request handed to the client.
post(endpoint, key, secret, body, clock, rnd, checks, enc_ok, form_ok) ==
    LET ah == auth_header(key, secret, clock, rnd, checks, enc_ok)
    IN  IF ah.ret.kind # "Ok" THEN [claims |-> ah.claims, early |-> ah.ret, req |-> NoValue]
        ELSE IF ~form_ok
        THEN [claims |-> ah.claims, early |-> ErrOf("EncodingError", <<>>), req |-> NoValue]
        ELSE [claims |-> ah.claims, early |-> NoValue,
              req |-> [method |-> "POST", endpoint |-> endpoint,
                       headers |-> (AUTH_HEADER :> ah.ret.value @@ ACCEPT :> JSON),
                       body |-> body]]

\* http_client::get up to the await of send.
get(endpoint, key, secret, clock, rnd, checks, enc_ok) ==
    LET ah == auth_header(key, secret, clock, rnd, checks, enc_ok)
    IN  IF ah.ret.kind # "Ok" THEN [claims |-> ah.claims, early |-> ah.ret, req |-> NoValue]
        ELSE [claims |-> ah.claims, early |-> NoValue,
              req |-> [method |-> "GET", endpoint |-> endpoint,
                       headers |-> (AUTH_HEADER :> ah.ret.value @@ ACCEPT :> JSON),
                       body |-> NoValue]]

\* The instance the management calls run on.
Credentials == {<<<<"4">>, <<"s">>>>, <<<<"4", "5">>, <<"t", "0">>>>}

StreamIds == {<<"s","t">>}

Init ==
    /\ \E c \in Credentials : api_key = c[1] /\ api_secret = c[2]
    /\ overflow_checks \in BOOLEAN
    /\ gen = NoValue
    /\ HttpIdle

\* A call runs from its start to its first await (send) in one step: p is what
\* post or get came to.  Calls are made one after another: the handlers keep
\* nothing between calls (the statics are immutable text), so a call in flight
\* neither reads nor writes anything another call touches.
Begin(name, a, clock, rnd, p) ==
    /\ pc = "idle"
    /\ calls < MaxCalls
    /\ calls' = calls + 1
    /\ op' = name
    /\ resp' = NoValue
    /\ built' = IF p.claims = NoValue THEN built
                ELSE Append(built, [call |-> calls + 1, clock |-> clock, rnd |-> rnd,
                                    claims |-> p.claims])
    /\ IF p.req = NoValue
       THEN /\ pc' = "done"
            /\ result' = Via(p.early, "auth")
            /\ args' = NoValue
            /\ req' = NoValue
            /\ sent' = sent
       ELSE /\ pc' = "sent"
            /\ result' = NoValue
            /\ args' = a
            /\ req' = p.req
            /\ sent' = Append(sent, [call |-> calls + 1, auth |-> p.req.headers[AUTH_HEADER]])
    /\ UNCHANGED <<ivars, gen>>

\* create_session(&self, options), lines 232-235.
StartCreateSession ==
    \E options \in SessionOptions, clock \in ClockReadings, rnd \in Nonces,
       enc_ok \in BOOLEAN, form_ok \in BOOLEAN :
        Begin("create_session", [options |-> options], clock, rnd,
              post(<<SERVER_URL, "/session/create">>, api_key, api_secret,
                   CreateSessionBody_from(options), clock, rnd, overflow_checks,
                   enc_ok, form_ok))

\* get_stream_info(&self, session_id, stream_id), lines 269-273.
StartGetStreamInfo ==
    \E session_id \in SessionIds, stream_id \in StreamIds, clock \in ClockReadings,
       rnd \in Nonces, enc_ok \in BOOLEAN :
        Begin("get_stream_info", [session_id |-> session_id, stream_id |-> stream_id],
              clock, rnd,
              get(<<SERVER_URL, API_ENDPOINT_PATH_START, api_key, "/session/", session_id,
                    "/stream/", stream_id>>,
                  api_key, api_secret, clock, rnd, overflow_checks, enc_ok))

\* send completes and from_surf_response looks at it: a transport error, a
\* response outside 200..=299 (its body is read next), or a response inside.
Respond ==
    /\ pc = "sent"
    /\ \E r \in [ok : {TRUE}, status : {200, 299, 300, 404, 500}] \cup [ok : {FALSE}, status : {500}] :
        IF ~r.ok
        THEN /\ pc' = "done"
             /\ resp' = NoValue
             /\ result' = Via(OpenTokError_from(r.status, <<"transport">>), "send")
        ELSE /\ pc' = IF r.status >= 200 /\ r.status <= 299 THEN "reading" ELSE "reading_err"
             /\ resp' = [status |-> r.status, body |-> NoValue]
             /\ result' = NoValue
    /\ args' = NoValue
    /\ req' = NoValue
    /\ UNCHANGED <<ivars, gen, calls, op, built, sent>>

\* from_surf_response reads the body of a response outside 200..=299.
ReadErrorBody ==
    /\ pc = "reading_err"
    /\ \E read \in {OkOf(b) : b \in ErrorBodies} \cup {ErrOf("Read", <<>>)} :
        /\ resp' = [resp EXCEPT !.body = read]
        /\ result' = IF read.kind = "Err"
                     THEN Via(ErrOf("UnexpectedResponse", <<"Response", resp.status>>), "map_err")
                     ELSE Via(OpenTokError_from(resp.status, read.value), "status")
    /\ pc' = "done"
    /\ UNCHANGED <<ivars, gen, calls, op, args, req, built, sent>>

\* The caller reads the body of a response inside 200..=299 and finishes.
ReadBody ==
    /\ pc = "reading"
    /\ \E read \in {OkOf(b) : b \in Bodies} \cup {ErrOf("Read", <<>>)} :
        /\ resp' = [resp EXCEPT !.body = read]
        /\ result' = IF read.kind = "Err"
                     THEN Via(OpenTokError_from(500, <<"read">>), "body_string")
                     ELSE IF op = "create_session" THEN create_session_finish(read.value)
                     ELSE get_stream_info_finish(read.value)
    /\ pc' = "done"
    /\ UNCHANGED <<ivars, gen, calls, op, args, req, built, sent>>

\* The caller takes the call's result; the instance is ready for the next call.
Return ==
    /\ pc = "done"
    /\ pc' = "idle"
    /\ op' = "none"
    /\ resp' = NoValue
    /\ result' = NoValue
    /\ UNCHANGED <<ivars, gen, calls, args, req, built, sent>>

Next ==
    \/ StartCreateSession
    \/ StartGetStreamInfo
    \/ Respond
    \/ ReadErrorBody
    \/ ReadBody
    \/ Return

Spec == Init /\ [][Next]_vars

Returned == gen # NoValue /\ gen.end.outcome = "returned"

\* ---------------------------------------------------- reading a token back
B64IndexTable ==
    [c \in {B64Alphabet[i] : i \in 1..64} |-> (CHOOSE i \in 1..64 : B64Alphabet[i] = c) - 1]

B64Index(c) == IF c = "=" THEN 0 ELSE B64IndexTable[c]

Padding(cs) ==
    IF Len(cs) >= 2 /\ cs[Len(cs)] = "=" /\ cs[Len(cs) - 1] = "=" THEN 2
    ELSE IF Len(cs) >= 1 /\ cs[Len(cs)] = "=" THEN 1 ELSE 0

ValidBase64(cs) ==
    /\ Len(cs) % 4 = 0
    /\ \A i \in 1..(Len(cs) - Padding(cs)) : cs[i] \in {B64Alphabet[j] : j \in 1..64}

B64Decode(cs) ==
    [j \in 1..(3 * (Len(cs) \div 4) - Padding(cs)) |->
        LET i == 4 * ((j - 1) \div 3) + 1
            k == (j - 1) % 3
        IN  CASE k = 0 -> B64Index(cs[i]) * 4 + (B64Index(cs[i + 1]) \div 16)
              [] k = 1 -> (B64Index(cs[i + 1]) % 16) * 16 + (B64Index(cs[i + 2]) \div 4)
              [] k = 2 -> (B64Index(cs[i + 2]) % 4) * 64 + B64Index(cs[i + 3])]

Positions(s, c) == {i \in 1..Len(s) : s[i] = c}

Least(S) == CHOOSE i \in S : \A j \in S : i <= j

\* The text before the first c (all of s when there is none) and the text after it.
Before(s, c) == IF Positions(s, c) = {} THEN s ELSE SubSeq(s, 1, Least(Positions(s, c)) - 1)

After(s, c) ==
    IF Positions(s, c) = {} THEN <<>> ELSE SubSeq(s, Least(Positions(s, c)) + 1, Len(s))

\* The &-separated fields of s, each with the place it starts at.
Fields(s) ==
    {[at |-> p, text |-> Before(SubSeq(s, p + 1, Len(s)), "&")] : p \in {0} \cup Positions(s, "&")}

Named(s, name) == {f \in Fields(s) : Before(f.text, "=") = name /\ Positions(f.text, "=") # {}}

Missing == <<"missing">>

\* The value of the first field of s called name.
FieldValue(s, name) ==
    IF Named(s, name) = {} THEN Missing
    ELSE After((CHOOSE f \in Named(s, name) : \A g \in Named(s, name) : f.at <= g.at).text, "=")

\* The inner string of a token: the prefix stripped, the rest decoded.
Inner(token) == from_bytes(B64Decode(SubSeq(token, 5, Len(token))))

PartnerIdName == <<"p","a","r","t","n","e","r","_","i","d">>

SigName == <<"s","i","g">>

\* ------------------------------------------------ claims on generate_token
RoleWire(role) ==
    CASE role = "Publisher" -> <<"p","u","b","l","i","s","h","e","r">>
      [] role = "Subscriber" -> <<"s","u","b","s","c","r","i","b","e","r">>
      [] role = "Moderator" -> <<"m","o","d","e","r","a","t","o","r">>

\* The query string the format prescribes for the call's arguments and the
\* record's two times and nonce.
WireQuery ==
    <<"s","e","s","s","i","o","n","_","i","d","=">> \o gen.session_id
    \o <<"&","c","r","e","a","t","e","_","t","i","m","e","=">> \o fmt_u64(gen.end.token_data.create_time)
    \o <<"&","e","x","p","i","r","e","_","t","i","m","e","=">> \o fmt_u64(gen.end.token_data.expire_time)
    \o <<"&","n","o","n","c","e","=">> \o fmt_u64(gen.end.token_data.nonce)
    \o <<"&","r","o","l","e","=">> \o RoleWire(gen.role)

WireInner ==
    <<"p","a","r","t","n","e","r","_","i","d","=">> \o api_key
    \o <<"&","s","i","g","=">> \o to_hex(hmac_sha1(as_bytes(api_secret), as_bytes(WireQuery)))
    \o <<":">> \o WireQuery

\* C1: every token generate_token returns is T1== followed by the padded base64 of
\* partner_id=<api_key>&sig=<hex>:<q>, q the five fields in their fixed order with
\* the role in lowercase, <hex> the lowercase hex HMAC of that same q keyed by the
\* secret.
C1_TokenFormat ==
    Returned =>
        /\ SubSeq(gen.end.token, 1, 4) = <<"T","1","=","=">>
        /\ SubSeq(gen.end.token, 5, Len(gen.end.token)) = base64_encode(WireInner)
        /\ ValidBase64(SubSeq(gen.end.token, 5, Len(gen.end.token)))
        /\ Inner(gen.end.token) = WireInner

C1_Witness ==
    /\ Returned
    /\ gen.role = "Moderator"
    /\ gen.session_id # <<>>
    /\ gen.rnd = U64Max
    /\ gen.clock.secs = I64Max

RoundTrips ==
    /\ FieldValue(Before(Inner(gen.end.token), ":"), PartnerIdName) = api_key
    /\ FieldValue(Before(Inner(gen.end.token), ":"), SigName)
         = to_hex(hmac_sha1(as_bytes(api_secret), as_bytes(After(Inner(gen.end.token), ":"))))

\* C2 as stated: for any api_key, reading a returned token back recovers the api_key
\* as partner_id and a sig that is the HMAC of the recovered query string.
C2_RoundTripAnyKey == Returned => RoundTrips

PlainKey == Positions(api_key, ":") = {} /\ Positions(api_key, "&") = {}

\* C2, amended: the round trip holds for every api_key that contains neither ':'
\* nor '&' (and for every api_secret, session_id and role).
C2_RoundTripPlainKey == (Returned /\ PlainKey) => RoundTrips

C2_Witness ==
    /\ Returned
    /\ PlainKey
    /\ api_key # <<>>
    /\ gen.session_id = <<":">>
    /\ RoundTrips

\* C3: every Token Data record has expire_time = create_time + 86400 exactly (no
\* wrap-around), create_time < expire_time, and create_time is the call's one
\* clock sample.
C3_TokenWindow ==
    Returned =>
        /\ gen.end.token_data.create_time = gen.clock.secs
        /\ ~U64AddOverflows(gen.end.token_data.create_time, U64Of(86400))
        /\ gen.end.token_data.expire_time
             = U64WrappingAdd(gen.end.token_data.create_time, U64Of(86400))
        /\ U64Less(gen.end.token_data.create_time, gen.end.token_data.expire_time)

C3_Witness == Returned /\ gen.clock.secs = I64Max /\ overflow_checks

\* C6: every call of generate_token returns a token; none aborts.
C6_Infallible == gen # NoValue => gen.end.outcome = "returned"

\* ---------------------------------------------- claims on management calls
WindowOf180(c) ==
    /\ ~U64AddOverflows(c.iat, U64Of(180))
    /\ c.exp = U64WrappingAdd(c.iat, U64Of(180))
    /\ U64Less(c.iat, c.exp)

\* C4: every claims record Claims::new builds, and so the claims of every assertion
\* sent, has exp = iat + 180 exactly with iat < exp, ist = "project" and iss = the
\* api_key passed in.
C4_ClaimsWindow ==
    /\ \A j \in 1..Len(built) :
        /\ WindowOf180(built[j].claims)
        /\ built[j].claims.ist = "project"
        /\ built[j].claims.iss = api_key
        /\ built[j].claims.iat = built[j].clock.secs
    /\ \A i \in 1..Len(sent) :
        /\ WindowOf180(sent[i].auth.claims)
        /\ sent[i].auth.claims.ist = "project"
        /\ sent[i].auth.claims.iss = api_key

C4_Witness ==
    /\ Len(sent) = 2
    /\ sent[2].auth.claims.iat = I64Max
    /\ overflow_checks

\* C5: every request sent carries, as X-OPENTOK-AUTH, the assertion encoded from the
\* claims record built in that same call from the clock reading and the nonce that
\* call drew; no call sends two requests, and the request in flight is the last
\* one sent.
C5_FreshAssertion ==
    /\ \A i \in 1..Len(sent) :
        \E j \in 1..Len(built) :
            /\ built[j].call = sent[i].call
            /\ sent[i].auth = encode(built[j].claims, api_secret)
            /\ built[j].claims.iat = built[j].clock.secs
            /\ built[j].claims.jti = built[j].rnd
    /\ \A i, k \in 1..Len(sent) : sent[i].call = sent[k].call => i = k
    /\ \A j, k \in 1..Len(built) : built[j].call = built[k].call => j = k
    /\ pc = "sent" =>
        /\ Len(sent) > 0
        /\ sent[Len(sent)].call = calls
        /\ req.headers[AUTH_HEADER] = sent[Len(sent)].auth

\* Two calls, one of each kind, whose assertions differ.
C5_Witness ==
    /\ Len(sent) = 2
    /\ sent[1].auth # sent[2].auth
    /\ pc = "sent"
    /\ op = "get_stream_info"
    /\ req.method = "GET"

CreatingSession == pc = "sent" /\ op = "create_session"

Enabled == <<"e","n","a","b","l","e","d">>

Disabled == <<"d","i","s","a","b","l","e","d">>

C8_ArchiveMode ==
    CreatingSession =>
        /\ args.options.archive_mode = "None" => req.body.archive_mode = <<"m","a","n","u","a","l">>
        /\ args.options.archive_mode = "Manual" => req.body.archive_mode = <<"m","a","n","u","a","l">>
        /\ args.options.archive_mode = "Always" => req.body.archive_mode = <<"a","l","w","a","y","s">>
        /\ req.body.location = args.options.location

C8_Witness ==
    /\ CreatingSession
    /\ args.options.archive_mode = "None"
    /\ args.options.location.some
    /\ req.body.location.some

\* C9: a session created with media_mode unset sends the p2p.preference that
\* media_mode = Some(Relayed) sends.
C9_DefaultIsRelayed ==
    (CreatingSession /\ args.options.media_mode = "None") =>
        req.body.p2p_preference
            = CreateSessionBody_from([args.options EXCEPT !.media_mode = "Relayed"]).p2p_preference

SessionEnded == pc = "done" /\ op = "create_session"

BodyRead == resp # NoValue /\ resp.body # NoValue /\ resp.body.kind = "Ok"

\* The body is a JSON array whose objects all have a session_id.
IsSessionList(b) ==
    b.json = "array" /\ \A i \in 1..Len(b.items) : b.items[i].session_id.some

\* C10: create_session returns Ok(session_id) only after a 2xx response whose body
\* is a list of exactly one session; a body that is no such list gives
\* UnexpectedResponse(body); a list of any other length aborts the call; and the
\* None branch after the assertion is never taken.
C10_SessionResponse ==
    SessionEnded =>
        /\ result.via # "None"
        /\ result.kind = "Ok" =>
            /\ BodyRead
            /\ resp.status >= 200 /\ resp.status <= 299
            /\ IsSessionList(resp.body.value)
            /\ Len(resp.body.value.items) = 1
            /\ result.value = resp.body.value.items[1].session_id.v
        /\ (BodyRead /\ resp.status >= 200 /\ resp.status <= 299) =>
            /\ ~IsSessionList(resp.body.value) =>
                result = Via(ErrOf("UnexpectedResponse", resp.body.value), "map_err")
            /\ (IsSessionList(resp.body.value) /\ Len(resp.body.value.items) # 1) =>
                result.kind = "panic"
            /\ (IsSessionList(resp.body.value) /\ Len(resp.body.value.items) = 1) =>
                result.kind = "Ok"

\* A list of no session at all: the call aborts at the assertion.
C10_Witness ==
    /\ SessionEnded
    /\ BodyRead
    /\ IsSessionList(resp.body.value)
    /\ Len(resp.body.value.items) = 0
    /\ result.kind = "panic"
    /\ result.via = "assert_eq"

====
